---- MODULE Spec2Model ----
(***************************************************************************)
(* Model of openviking/storage/vikingdb_manager.py (VikingDBManager: the   *)
(* close / enqueue_embedding_msg lifecycle) and of                          *)
(* openviking/utils/async_utils.py (run_async and the shared event loop).   *)
(***************************************************************************)
EXTENDS Integers, Sequences, FiniteSets, TLC

\* ------------------------------------------------------------------ bounds
\* number of close()/enqueue_embedding_msg() coroutine calls made on the Manager
MaxCalls == 3

\* number of event loops _get_loop may create over the life of the process
MaxLoops == 2
\* number of run_async / _shutdown_loop calls made over the life of the process
MaxOps == 3

\* ------------------------------------------------------------- value sets
None == "None"
\* a falsy embedding_msg (None) and the non-null messages
Null == "Null"
Msgs == {"m1"}
Calls == 1..MaxCalls

VARIABLES
  agfs_url,           \* self.agfs_url is truthy (a persistence endpoint is configured)
  _queue_manager,     \* self._queue_manager: None or the QueueManager object "qm"
  _closing,           \* self._closing
  stopCalls,          \* number of invocations of QueueManager.stop()
  backendCloseCalls,  \* number of invocations of VikingVectorIndexBackend.close()
  enqueueCalls,       \* number of invocations of EmbeddingQueue.enqueue()
  queue,              \* messages persisted in the embedding queue
  calls               \* the coroutine calls made on the Manager, with what each did

mvars == <<agfs_url, _queue_manager, _closing, stopCalls, backendCloseCalls,
           enqueueCalls, queue, calls>>

\* ---- state of openviking.utils.async_utils
VARIABLES
  _loop,         \* the module global _loop: NoLoop (None) or the id of a loop
  _loop_thread,  \* the module global _loop_thread: NoLoop (None) or the id of the
                 \* loop whose run_forever is the thread's target
  _lock,         \* holder of _lock: a caller thread, or NoThread
  atexitRegs,    \* number of atexit.register(_shutdown_loop) calls made
  loops,         \* the event loops created so far, with their worker threads
  nloops,        \* number of event loops created so far
  opsLeft,       \* calls still to be made
  th             \* per caller thread: its current call and what the call did

bvars == <<_loop, _loop_thread, _lock, atexitRegs, loops, nloops, opsLeft, th>>

vars == <<mvars, bvars>>

\* A call that has not been made yet.
IdleCall ==
  [op |-> "none", pc |-> "idle", msg |-> Null, result |-> "none",
   qmAtStart |-> None, closingAtStart |-> FALSE, afterClose |-> FALSE,
   didStop |-> FALSE, stopRaised |-> FALSE,
   didBackendClose |-> FALSE, backendRaised |-> FALSE,
   lookup |-> "none", invokedQueue |-> FALSE, outcome |-> "none",
   closingAtReturn |-> FALSE, closingAtTeardown |-> FALSE]

\* ------------------------------------------------ async_utils: state values
\* the caller threads of the bridge: two threads race through run_async and
\* _shutdown_loop
Threads == {1, 2}
LoopIds == 1..MaxLoops
\* None as the value of _loop, _loop_thread and of a local loop variable
NoLoop == 0
\* _lock is free
NoThread == 0

\* The coroutines handed to run_async: what the unit of work does when driven
\* (returns, or raises an Exception; "RuntimeError" is RuntimeError or one of
\* its subclasses, "ValueError" any other Exception), and whether it suspends
\* once before it finishes.  nested: what the coroutine that the unit itself
\* hands to run_async does, "none" when the unit makes no such call.
Outcomes == {"ok", "ValueError", "RuntimeError"}

Units ==
  {[outcome |-> o, suspends |-> b, nested |-> "none"] : o \in Outcomes,
                                                        b \in BOOLEAN}

\* A unit of the form "return run_async(inner())": it runs on the shared loop
\* and calls run_async there, on the worker thread.
NestingUnit(inner) == [outcome |-> "nests", suspends |-> FALSE, nested |-> inner]

NoUnit == [outcome |-> "none", suspends |-> FALSE, nested |-> "none"]

\* Results of calls and of futures: returned values and raised errors.  "of"
\* is the caller whose unit produced the value or the error, 0 when the error
\* was raised by asyncio, threading or the interpreter.
NoResult == [kind |-> "none", what |-> "none", of |-> 0]
Returned(what, t) == [kind |-> "returned", what |-> what, of |-> t]
Raised(what, t) == [kind |-> "raised", what |-> what, of |-> t]

\* What driving unit u of caller t to its end produces.
UnitResult(u, t) ==
  IF u.outcome = "ok" THEN Returned("value", t) ELSE Raised(u.outcome, t)

\* What driving the inner coroutine of nesting unit u to its end produces.
InnerResult(u, t) ==
  IF u.nested = "ok" THEN Returned("value", t) ELSE Raised(u.nested, t)

\* A caller thread that is making no call.
IdleThread ==
  [op |-> "none", pc |-> "idle", inside |-> FALSE, unit |-> NoUnit,
   loop |-> NoLoop, task |-> "none", exhausted |-> FALSE, fut |-> NoResult,
   result |-> NoResult, drove |-> FALSE, gotLoop |-> FALSE,
   submitted |-> FALSE, starts |-> 0,
   \* what the call found and did, kept for the properties
   overlapped |-> FALSE, absentAtStart |-> FALSE, viaLock |-> FALSE,
   created |-> NoLoop, returnedLoop |-> FALSE, effects |-> {},
   timedOut |-> FALSE, afterShutdown |-> FALSE,
   \* the run_async call that the unit makes on the worker thread: its position
   \* and its result
   npc |-> "none", nresult |-> NoResult]

\* An event loop that asyncio.new_event_loop() has not created yet.
\* thread: the state of the thread whose target is this loop's run_forever.
\* patched: nest_asyncio.apply() has replaced the loop's methods.
NoLoopYet ==
  [created |-> FALSE, closed |-> FALSE, stopping |-> FALSE, thread |-> "none",
   ready |-> << >>, ntodo |-> 0, patched |-> FALSE]

\* Module state after import: no loop, no thread, nothing registered.
InitB ==
  /\ _loop = NoLoop
  /\ _loop_thread = NoLoop
  /\ _lock = NoThread
  /\ atexitRegs = 0
  /\ loops = [i \in LoopIds |-> NoLoopYet]
  /\ nloops = 0
  /\ opsLeft = MaxOps
  /\ th = [t \in Threads |-> IdleThread]

\* ------------------------------------------------- VikingDBManager.__init__
\* _init_queue_manager: no queue manager without an AGFS URL.
InitQueueManagerAlways(url) == "qm"

InitQueueManager(url) == IF ~url THEN None ELSE "qm"

InitM ==
  /\ agfs_url \in BOOLEAN
  /\ _queue_manager = InitQueueManager(agfs_url)
  /\ _closing = FALSE
  /\ stopCalls = 0
  /\ backendCloseCalls = 0
  /\ enqueueCalls = 0
  /\ queue = << >>
  /\ calls = [c \in Calls |-> IdleCall]

\* ---------------------------------------------------- VikingDBManager.close
\* What close() hands to its caller: the try body either ran to its end or an
\* Exception raised in it was caught by "except Exception", logged, and dropped.
CloseResultPropagates(raisedInTry) == IF raisedInTry THEN "raised" ELSE "returned"

CloseResult(raisedInTry) == IF raisedInTry THEN "returned" ELSE "returned"

\* The value of self._closing while lines 121-127 run: "self._closing = True"
\* is line 118, ahead of the try block, whatever the flag was before.
ClosingAtTeardownSetLast(before) == before

ClosingAtTeardown(before) == TRUE

\* close() from its first statement to the point where it awaits super().close()
\* (no suspension point lies in between).  stop() may raise.
CloseBegin(c, stopRaises) ==
  /\ calls[c].pc = "idle"
  /\ _closing' = TRUE
  /\ LET started == [calls[c] EXCEPT !.op = "close",
                        !.qmAtStart = _queue_manager,
                        !.closingAtStart = _closing,
                        !.closingAtTeardown = ClosingAtTeardown(_closing),
                        !.afterClose = \E d \in Calls : /\ calls[d].op = "close"
                                                         /\ calls[d].pc = "done"]
     IN
     IF _queue_manager # None
       THEN /\ stopCalls' = stopCalls + 1
            /\ IF stopRaises
                 THEN \* the exception leaves the try body: lines 123-127 are skipped
                      /\ _queue_manager' = _queue_manager
                      /\ backendCloseCalls' = backendCloseCalls
                      /\ calls' = [calls EXCEPT ![c] =
                             [started EXCEPT !.didStop = TRUE, !.stopRaised = TRUE,
                                             !.pc = "done",
                                             !.result = CloseResult(TRUE),
                                             !.closingAtReturn = TRUE]]
                 ELSE /\ _queue_manager' = None
                      /\ backendCloseCalls' = backendCloseCalls + 1
                      /\ calls' = [calls EXCEPT ![c] =
                             [started EXCEPT !.didStop = TRUE,
                                             !.didBackendClose = TRUE,
                                             !.pc = "in_backend_close"]]
       ELSE /\ stopCalls' = stopCalls
            /\ _queue_manager' = _queue_manager
            /\ backendCloseCalls' = backendCloseCalls + 1
            /\ calls' = [calls EXCEPT ![c] =
                   [started EXCEPT !.didBackendClose = TRUE,
                                   !.pc = "in_backend_close"]]
  /\ UNCHANGED bvars
  /\ UNCHANGED <<agfs_url, enqueueCalls, queue>>

\* "await super().close()" finishes: it returns or raises.
CloseBackendReturn(c, backendRaises) ==
  /\ calls[c].pc = "in_backend_close"
  /\ calls' = [calls EXCEPT ![c] =
         [@ EXCEPT !.pc = "done", !.backendRaised = backendRaises,
                   !.result = CloseResult(backendRaises),
                   !.closingAtReturn = _closing]]
  /\ UNCHANGED bvars
  /\ UNCHANGED <<agfs_url, _queue_manager, _closing, stopCalls, backendCloseCalls,
                 enqueueCalls, queue>>

\* ------------------------------------ VikingDBManager.enqueue_embedding_msg
\* The two checks made before the try block: a falsy message returns False, a
\* missing queue manager raises RuntimeError; otherwise the try block is entered.
EnqueueEarlyExitManagerFirst(m, qm) ==
  IF qm = None THEN "raised_config"
  ELSE IF m = Null THEN "false"
  ELSE "try"

EnqueueEarlyExit(m, qm) ==
  IF m = Null THEN "false"
  ELSE IF qm = None THEN "raised_config"
  ELSE "try"

\* What QueueManager.get_queue(EMBEDDING) can hand back or do.
GetQueueOutcomes == {"EmbeddingQueue", "OtherQueue", "None", "raise"}

\* The embedding_queue property, given what get_queue returned: None without a
\* queue manager, and None unless the queue is an EmbeddingQueue.
embedding_queue(qm, got) ==
  IF qm = None THEN None
  ELSE IF got = "EmbeddingQueue" THEN got ELSE None

\* What EmbeddingQueue.enqueue can do once awaited: persist the message and
\* report it accepted, report it rejected, or raise.
QueueEnqueueOutcomes == {"accepted", "rejected", "raised"}

\* The result of the try block of enqueue_embedding_msg.  failure names the
\* exception raised inside it ("none": the body ran to "return True"); the
\* value returned by the queue's enqueue is not read.
EnqueueTryResultLookupOutside(failure, returned) ==
  IF failure \in {"lookup_raised", "queue_absent"} THEN "raised"
  ELSE IF failure # "none" THEN "false"
  ELSE "true"

EnqueueTryResult(failure, returned) ==
  IF failure # "none" THEN "false" ELSE "true"

\* enqueue_embedding_msg from its first statement to the point where it awaits
\* embedding_queue.enqueue(embedding_msg), or to its return when it gets no
\* further.
EnqueueBegin(c, m, got) ==
  /\ calls[c].pc = "idle"
  /\ LET started == [calls[c] EXCEPT !.op = "enqueue", !.msg = m,
                        !.qmAtStart = _queue_manager,
                        !.closingAtStart = _closing,
                        !.afterClose = \E d \in Calls : /\ calls[d].op = "close"
                                                         /\ calls[d].pc = "done"]
         early == EnqueueEarlyExit(m, _queue_manager)
     IN
     IF early # "try"
       THEN /\ calls' = [calls EXCEPT ![c] =
                   [started EXCEPT !.pc = "done", !.result = early,
                                   !.closingAtReturn = _closing]]
            /\ enqueueCalls' = enqueueCalls
       ELSE IF got = "raise"
         THEN /\ calls' = [calls EXCEPT ![c] =
                     [started EXCEPT !.pc = "done", !.lookup = got,
                        !.closingAtReturn = _closing,
                        !.result = EnqueueTryResult("lookup_raised", "none")]]
              /\ enqueueCalls' = enqueueCalls
       ELSE IF embedding_queue(_queue_manager, got) = None
         THEN /\ calls' = [calls EXCEPT ![c] =
                     [started EXCEPT !.pc = "done", !.lookup = got,
                        !.closingAtReturn = _closing,
                        !.result = EnqueueTryResult("queue_absent", "none")]]
              /\ enqueueCalls' = enqueueCalls
       ELSE /\ calls' = [calls EXCEPT ![c] =
                   [started EXCEPT !.pc = "in_queue_enqueue", !.lookup = got,
                                   !.invokedQueue = TRUE]]
            /\ enqueueCalls' = enqueueCalls + 1
  /\ UNCHANGED bvars
  /\ UNCHANGED <<agfs_url, _queue_manager, _closing, stopCalls, backendCloseCalls,
                 queue>>

\* "await embedding_queue.enqueue(embedding_msg)" finishes.
EnqueueReturn(c, outcome) ==
  /\ calls[c].pc = "in_queue_enqueue"
  /\ queue' = IF outcome = "accepted" THEN Append(queue, calls[c].msg) ELSE queue
  /\ calls' = [calls EXCEPT ![c] =
         [@ EXCEPT !.pc = "done", !.outcome = outcome,
                   !.result = EnqueueTryResult(
                                 IF outcome = "raised" THEN "enqueue_raised" ELSE "none",
                                 outcome),
                   !.closingAtReturn = _closing]]
  /\ UNCHANGED bvars
  /\ UNCHANGED <<agfs_url, _queue_manager, _closing, stopCalls, backendCloseCalls,
                 enqueueCalls>>

\* -------------------------------------------------------------- specification
NextM ==
  \/ \E c \in Calls, r \in BOOLEAN : CloseBegin(c, r)
  \/ \E c \in Calls, r \in BOOLEAN : CloseBackendReturn(c, r)
  \/ \E c \in Calls, m \in Msgs \cup {Null}, g \in GetQueueOutcomes : EnqueueBegin(c, m, g)
  \/ \E c \in Calls, o \in QueueEnqueueOutcomes : EnqueueReturn(c, o)

\* The Manager alone, beside a bridge that is left as imported.
Init == InitM /\ InitB

SpecM == Init /\ [][NextM]_vars

\* The Manager when neither stop() nor the storage backend's close() raises.
NextMTeardownOk ==
  \/ \E c \in Calls : CloseBegin(c, FALSE)
  \/ \E c \in Calls : CloseBackendReturn(c, FALSE)
  \/ \E c \in Calls, m \in Msgs \cup {Null}, g \in GetQueueOutcomes : EnqueueBegin(c, m, g)
  \/ \E c \in Calls, o \in QueueEnqueueOutcomes : EnqueueReturn(c, o)

SpecMTeardownOk == Init /\ [][NextMTeardownOk]_vars

\* ------------------------------------------------ properties of the Manager
CloseCalls == {c \in Calls : calls[c].op = "close"}
EnqueueCalls == {c \in Calls : calls[c].op = "enqueue"}
Done(c) == calls[c].pc = "done"

\* C1: a close() started after an earlier close() has completed performs no
\* teardown action (it invokes neither the queue manager's stop() nor the
\* storage backend's close()) and raises nothing.
C1_SecondCloseDoesNothing ==
  \A c \in CloseCalls :
    calls[c].afterClose =>
      /\ ~calls[c].didStop
      /\ ~calls[c].didBackendClose
      /\ calls[c].result # "raised"

\* C2: once close() has set the closing flag, no enqueue_embedding_msg call
\* returns true, whether it started before close() and was suspended in the
\* queue's enqueue, or started after close().
C2_NoAcceptOnceClosing ==
  \A c \in EnqueueCalls :
    (Done(c) /\ calls[c].closingAtReturn) => calls[c].result # "true"

\* C3: every close() call on a Manager holding a queue manager runs the whole
\* close sequence: the queue-manager reference is discarded and the storage
\* backend's close() is invoked, also when stop() raises.
C3_CloseRunsWholeSequence ==
  \A c \in CloseCalls :
    (Done(c) /\ calls[c].qmAtStart # None) =>
      /\ _queue_manager = None
      /\ calls[c].didBackendClose

\* C4: close() never propagates an exception: whatever stop() and the storage
\* backend's close() do, a finished close() has returned normally.
C4_CloseNeverRaises ==
  \A c \in CloseCalls : Done(c) => calls[c].result = "returned"

\* C4 witness: one close() whose stop() raised and one whose stop() returned
\* and whose backend close() raised have both finished.
C4_Witness ==
  /\ \E c \in CloseCalls : Done(c) /\ calls[c].stopRaised
  /\ \E c \in CloseCalls :
        Done(c) /\ calls[c].didStop /\ ~calls[c].stopRaised /\ calls[c].backendRaised

\* C5: with no persistence endpoint configured no queue manager ever exists,
\* and every enqueue_embedding_msg call with a non-null message raises the
\* configuration error.
C5_NoEndpointRaisesConfigError ==
  ~agfs_url =>
    /\ _queue_manager = None
    /\ \A c \in EnqueueCalls :
         calls[c].msg # Null => (Done(c) /\ calls[c].result = "raised_config")

\* C5 witness: a non-null message was offered to a Manager without endpoint.
C5_Witness ==
  /\ ~agfs_url
  /\ \E c \in EnqueueCalls : calls[c].msg # Null /\ Done(c)

\* C6: with a queue manager present, enqueue_embedding_msg with a non-null
\* message never raises, and a failed lookup of the embedding queue (raising,
\* absent, or of another type) or a raising enqueue is reported as false.
C6_QueueFailuresReportedFalse ==
  \A c \in EnqueueCalls :
    (Done(c) /\ calls[c].msg # Null /\ calls[c].qmAtStart # None) =>
      /\ calls[c].result \in {"true", "false"}
      /\ (calls[c].lookup \in {"OtherQueue", "None", "raise"}
            \/ calls[c].outcome = "raised") => calls[c].result = "false"

\* C6 witness: a lookup that raised, a lookup that found a queue of another
\* type, and a raising enqueue have each ended a call.
C6_Witness ==
  /\ \E c \in EnqueueCalls : Done(c) /\ calls[c].lookup = "raise"
  /\ \E c \in EnqueueCalls : Done(c) /\ calls[c].lookup = "OtherQueue"
  /\ \E c \in EnqueueCalls : Done(c) /\ calls[c].outcome = "raised"

\* C7: in every Manager state, enqueue_embedding_msg with a null message
\* returns false at once, without raising and without invoking the queue,
\* whose content is left as it was.
C7_NullMessageRejected ==
  [][\A c \in Calls :
       (calls[c].pc = "idle" /\ calls'[c].op = "enqueue" /\ calls'[c].msg = Null) =>
         /\ calls'[c].pc = "done"
         /\ calls'[c].result = "false"
         /\ ~calls'[c].invokedQueue
         /\ enqueueCalls' = enqueueCalls
         /\ queue' = queue]_vars

\* C7 witness: a null message was offered while the queue manager existed, and
\* another after a close() had completed and discarded it.
C7_Witness ==
  /\ \E c \in EnqueueCalls :
        /\ Done(c) /\ calls[c].msg = Null
        /\ calls[c].qmAtStart # None /\ ~calls[c].closingAtStart
  /\ \E c \in EnqueueCalls :
        /\ Done(c) /\ calls[c].msg = Null
        /\ calls[c].qmAtStart = None /\ calls[c].afterClose

\* C8: enqueue_embedding_msg returns true only if the queue's enqueue reported
\* the message accepted; a queue's enqueue that returns false without raising
\* makes it return false.
C8_TrueOnlyIfAccepted ==
  \A c \in EnqueueCalls :
    Done(c) =>
      /\ calls[c].result = "true" => calls[c].outcome = "accepted"
      /\ calls[c].outcome = "rejected" => calls[c].result = "false"

\* C17: close() sets the closing flag before any teardown action (stop() and
\* the storage backend's close() are invoked with the flag already set), and no
\* operation of the Manager resets the flag once it is true.
C17_ClosingSetFirstAndKept ==
  [][/\ _closing => _closing'
     /\ \A c \in Calls :
          ((calls'[c].didStop /\ ~calls[c].didStop)
             \/ (calls'[c].didBackendClose /\ ~calls[c].didBackendClose))
            => calls'[c].closingAtTeardown]_vars

\* C17 witness: a close() has invoked stop() and the backend's close() and has
\* finished, and an enqueue_embedding_msg call made after it has finished too.
C17_Witness ==
  /\ _closing
  /\ \E c \in CloseCalls : Done(c) /\ calls[c].didStop /\ calls[c].didBackendClose
  /\ \E c \in EnqueueCalls : Done(c) /\ calls[c].afterClose

\* ------------------------------------------------------ async_utils.run_async
Finish(t, res) == [th[t] EXCEPT !.pc = "done", !.result = res]

Goto(t, pc) == [th[t] EXCEPT !.pc = pc]

AttributeError == Raised("AttributeError: 'NoneType' object has no attribute", 0)
LoopClosedError == Raised("RuntimeError: Event loop is closed", 0)
ReusedCoroutineError == Raised("RuntimeError: cannot reuse already awaited coroutine", 0)

\* asyncio.get_running_loop() succeeds inside a running event loop and the
\* try body goes on to line 65; outside it raises RuntimeError, which the
\* except clause answers by calling _get_loop().
RunPath(inside) == IF inside THEN "r65" ELSE "g22a"

\* "except RuntimeError" around the whole try body: it catches every
\* RuntimeError raised there, the one of get_running_loop() and the one the
\* coroutine itself raises out of run_until_complete.
ExceptRuntimeError(r) == r.kind = "raised" /\ r.what = "RuntimeError"

\* Caller threads are interchangeable: they are numbered in the order of their
\* first call.
MayCall(t) ==
  /\ th[t].pc \in {"idle", "done"}
  /\ IF t = 1 THEN TRUE ELSE th[t - 1].op # "none"

\* A caller thread is in the middle of a call.
Active(t) == th[t].pc \notin {"idle", "done"}

\* No usable shared loop: _loop is None or refers to a closed loop (the
\* negation of the condition of lines 22, 25 and 37).
ContextAbsent == IF _loop = NoLoop THEN TRUE ELSE loops[_loop].closed

\* Caller t begins the call described by rec; calls of different threads that
\* are in progress at the same time are marked as overlapping.
Begun(t, rec) ==
  [o \in Threads |->
     IF o = t
       THEN [rec EXCEPT !.overlapped = \E x \in Threads \ {t} : Active(x),
                        !.absentAtStart = ContextAbsent,
                        !.afterShutdown =
                           /\ ContextAbsent
                           /\ \E s \in Threads : /\ th[s].op = "shutdown"
                                                 /\ th[s].pc = "done"
                                                 /\ th[s].result.kind = "returned"]
     ELSE IF Active(o) THEN [th[o] EXCEPT !.overlapped = TRUE]
     ELSE th[o]]

\* A caller thread calls run_async(coro): lines 60-61.  (Whether the coroutine
\* suspends is only told apart where the shared loop drives it.)
RunBegin(t, inside, u) ==
  /\ MayCall(t)
  /\ inside => ~u.suspends
  /\ opsLeft > 0
  /\ opsLeft' = opsLeft - 1
  /\ th' = Begun(t,
        [IdleThread EXCEPT !.op = "run", !.inside = inside, !.unit = u,
                           !.pc = RunPath(inside),
                           !.gotLoop = (RunPath(inside) = "g22a")])
  /\ UNCHANGED <<_loop, _loop_thread, _lock, atexitRegs, loops, nloops>>
  /\ UNCHANGED mvars

\* Lines 62-66: nest_asyncio.apply() and loop.run_until_complete(coro) drive
\* the coroutine to its end on the caller's own running loop.  Its result is
\* returned and its exception raised, unless the except clause catches it
\* and goes on to lines 67-69 with the same, now finished, coroutine.
RunUntilComplete(t) ==
  /\ th[t].pc = "r65"
  /\ LET r == UnitResult(th[t].unit, t)
         driven == [th[t] EXCEPT !.drove = TRUE, !.starts = @ + 1,
                                 !.exhausted = TRUE]
     IN th' = [th EXCEPT ![t] =
          IF ExceptRuntimeError(r)
            THEN [driven EXCEPT !.pc = "g22a", !.gotLoop = TRUE]
            ELSE [driven EXCEPT !.pc = "done", !.result = r]]
  /\ UNCHANGED <<_loop, _loop_thread, _lock, atexitRegs, loops, nloops, opsLeft>>
  /\ UNCHANGED mvars

\* ----------------------------------------------------- async_utils._get_loop
\* "return _loop": the caller of _get_loop() goes on at line 68 with the value
\* the global holds at the time of the return statement.
GetLoopReturns(t, value) ==
  [th[t] EXCEPT !.pc = "r68", !.loop = value, !.returnedLoop = TRUE]

\* Line 22, first operand: "_loop is not None".
GetLoopCheck1(t) ==
  /\ th[t].pc = "g22a"
  /\ th' = [th EXCEPT ![t] = Goto(t, IF _loop = NoLoop THEN "g24" ELSE "g22b")]
  /\ UNCHANGED <<_loop, _loop_thread, _lock, atexitRegs, loops, nloops, opsLeft>>
  /\ UNCHANGED mvars

\* Line 22, second operand: "not _loop.is_closed()", a second read of _loop.
GetLoopCheck2(t) ==
  /\ th[t].pc = "g22b"
  /\ th' = [th EXCEPT ![t] =
        IF _loop = NoLoop THEN Finish(t, AttributeError)
        ELSE IF loops[_loop].closed THEN Goto(t, "g24")
        ELSE Goto(t, "g23")]
  /\ UNCHANGED <<_loop, _loop_thread, _lock, atexitRegs, loops, nloops, opsLeft>>
  /\ UNCHANGED mvars

\* Line 23: "return _loop".
GetLoopReturnFast(t) ==
  /\ th[t].pc = "g23"
  /\ th' = [th EXCEPT ![t] = GetLoopReturns(t, _loop)]
  /\ UNCHANGED <<_loop, _loop_thread, _lock, atexitRegs, loops, nloops, opsLeft>>
  /\ UNCHANGED mvars

\* Line 24: "with _lock".
GetLoopLock(t) ==
  /\ th[t].pc = "g24"
  /\ _lock = NoThread
  /\ _lock' = t
  /\ th' = [th EXCEPT ![t] = [th[t] EXCEPT !.pc = "g25a", !.viaLock = TRUE]]
  /\ UNCHANGED <<_loop, _loop_thread, atexitRegs, loops, nloops, opsLeft>>
  /\ UNCHANGED mvars

\* Where line 25 leads from its first operand: a caller that holds the lock
\* looks at _loop again before it creates anything.
LockedCheckSkipped(loopIsNone) == "g27"

LockedCheck(loopIsNone) == IF loopIsNone THEN "g27" ELSE "g25b"

\* Line 25, first operand.
GetLoopLockedCheck1(t) ==
  /\ th[t].pc = "g25a"
  /\ th' = [th EXCEPT ![t] = Goto(t, LockedCheck(_loop = NoLoop))]
  /\ UNCHANGED <<_loop, _loop_thread, _lock, atexitRegs, loops, nloops, opsLeft>>
  /\ UNCHANGED mvars

\* Line 25, second operand; an exception leaves the with block and frees _lock.
GetLoopLockedCheck2(t) ==
  /\ th[t].pc = "g25b"
  /\ IF _loop = NoLoop
       THEN /\ th' = [th EXCEPT ![t] = Finish(t, AttributeError)]
            /\ _lock' = NoThread
       ELSE /\ th' = [th EXCEPT ![t] =
                  Goto(t, IF loops[_loop].closed THEN "g27" ELSE "g26")]
            /\ _lock' = _lock
  /\ UNCHANGED <<_loop, _loop_thread, atexitRegs, loops, nloops, opsLeft>>
  /\ UNCHANGED mvars

\* Line 26: "return _loop" from inside the with block.
GetLoopLockedReturn(t) ==
  /\ th[t].pc = "g26"
  /\ th' = [th EXCEPT ![t] = GetLoopReturns(t, _loop)]
  /\ _lock' = NoThread
  /\ UNCHANGED <<_loop, _loop_thread, atexitRegs, loops, nloops, opsLeft>>
  /\ UNCHANGED mvars

\* Line 27: "_loop = asyncio.new_event_loop()".
GetLoopCreate(t) ==
  /\ th[t].pc = "g27"
  /\ nloops < MaxLoops
  /\ nloops' = nloops + 1
  /\ loops' = [loops EXCEPT ![nloops + 1] = [NoLoopYet EXCEPT !.created = TRUE]]
  /\ _loop' = nloops + 1
  /\ th' = [th EXCEPT ![t] = [th[t] EXCEPT !.pc = "g28", !.created = nloops + 1]]
  /\ UNCHANGED <<_loop_thread, _lock, atexitRegs, opsLeft>>
  /\ UNCHANGED mvars

\* Line 28: "_loop_thread = threading.Thread(target=_loop.run_forever, ...)".
GetLoopMakeThread(t) ==
  /\ th[t].pc = "g28"
  /\ IF _loop = NoLoop
       THEN /\ th' = [th EXCEPT ![t] = Finish(t, AttributeError)]
            /\ _lock' = NoThread
            /\ UNCHANGED <<_loop_thread, loops>>
       ELSE /\ _loop_thread' = _loop
            /\ loops' = [loops EXCEPT ![_loop].thread = "created"]
            /\ th' = [th EXCEPT ![t] = Goto(t, "g29")]
            /\ _lock' = _lock
  /\ UNCHANGED <<_loop, atexitRegs, nloops, opsLeft>>
  /\ UNCHANGED mvars

\* Line 29: "_loop_thread.start()".
GetLoopStartThread(t) ==
  /\ th[t].pc = "g29"
  /\ IF _loop_thread = NoLoop
       THEN /\ th' = [th EXCEPT ![t] = Finish(t, AttributeError)]
            /\ _lock' = NoThread
            /\ loops' = loops
       ELSE /\ loops' = [loops EXCEPT ![_loop_thread].thread = "started"]
            /\ th' = [th EXCEPT ![t] = Goto(t, "g30")]
            /\ _lock' = _lock
  /\ UNCHANGED <<_loop, _loop_thread, atexitRegs, nloops, opsLeft>>
  /\ UNCHANGED mvars

\* Line 30: "atexit.register(_shutdown_loop)", then the with block ends.
GetLoopRegister(t) ==
  /\ th[t].pc = "g30"
  /\ atexitRegs' = atexitRegs + 1
  /\ _lock' = NoThread
  /\ th' = [th EXCEPT ![t] = Goto(t, "g31")]
  /\ UNCHANGED <<_loop, _loop_thread, loops, nloops, opsLeft>>
  /\ UNCHANGED mvars

\* Line 31: "return _loop".
GetLoopReturn(t) ==
  /\ th[t].pc = "g31"
  /\ th' = [th EXCEPT ![t] = GetLoopReturns(t, _loop)]
  /\ UNCHANGED <<_loop, _loop_thread, _lock, atexitRegs, loops, nloops, opsLeft>>
  /\ UNCHANGED mvars

\* ------------------------------------------- run_async, lines 68-69
TaskHandle(t) == [h |-> "task", t |-> t]
StopHandle == [h |-> "stop", t |-> 0]

\* Line 68: asyncio.run_coroutine_threadsafe(coro, loop) schedules the
\* coroutine on the loop with loop.call_soon_threadsafe.
Submit(t) ==
  /\ th[t].pc = "r68"
  /\ IF th[t].loop = NoLoop
       THEN /\ th' = [th EXCEPT ![t] = Finish(t, AttributeError)]
            /\ loops' = loops
       ELSE IF loops[th[t].loop].closed
       THEN /\ th' = [th EXCEPT ![t] = Finish(t, LoopClosedError)]
            /\ loops' = loops
       ELSE /\ loops' = [loops EXCEPT ![th[t].loop].ready = Append(@, TaskHandle(t))]
            /\ th' = [th EXCEPT ![t] =
                  [th[t] EXCEPT !.pc = "r69", !.submitted = TRUE, !.task = "queued"]]
  /\ UNCHANGED <<_loop, _loop_thread, _lock, atexitRegs, nloops, opsLeft>>
  /\ UNCHANGED mvars

\* Line 69: future.result() blocks until the future holds a result or an
\* exception, and returns or raises it.
ResultReadyAll(t) == \A o \in Threads : th[o].pc = "r69" => th[o].fut # NoResult

\* The future of caller t is done: it holds a result or an exception.
ResultReady(t) == th[t].fut # NoResult

FutureResultDropped(f) == Returned("None", 0)

\* "return future.result()": the future's result is the call's result.
FutureResult(f) == f

AwaitResult(t) ==
  /\ th[t].pc = "r69"
  /\ ResultReady(t)
  /\ th' = [th EXCEPT ![t] = Finish(t, FutureResult(th[t].fut))]
  /\ UNCHANGED <<_loop, _loop_thread, _lock, atexitRegs, loops, nloops, opsLeft>>
  /\ UNCHANGED mvars

\* ------------------------------- the worker thread: loop.run_forever()
\* The started thread enters run_forever; on a loop that was closed in the
\* meantime run_forever raises and the thread ends.
WorkerEnter(i) ==
  /\ loops[i].thread = "started"
  /\ loops' = [loops EXCEPT ![i].thread = IF loops[i].closed THEN "finished" ELSE "running"]
  /\ UNCHANGED <<_loop, _loop_thread, _lock, atexitRegs, nloops, opsLeft, th>>
  /\ UNCHANGED mvars

\* What running caller t's task for one step does to the caller's record: a
\* finished coroutine cannot be started again; a fresh one is started and
\* either suspends or finishes; a woken one finishes.  Finishing sets the
\* caller's future.
TaskStep(t) ==
  IF th[t].exhausted
    THEN [th[t] EXCEPT !.task = "finished", !.fut = ReusedCoroutineError]
  ELSE IF th[t].task = "queued" /\ th[t].unit.nested # "none"
    THEN [th[t] EXCEPT !.task = "nesting", !.starts = @ + 1, !.npc = "n61"]
  ELSE IF th[t].task = "queued" /\ th[t].unit.suspends
    THEN [th[t] EXCEPT !.task = "suspended", !.starts = @ + 1]
  ELSE IF th[t].task = "queued"
    THEN [th[t] EXCEPT !.task = "finished", !.starts = @ + 1, !.exhausted = TRUE,
                       !.fut = UnitResult(th[t].unit, t)]
  ELSE [th[t] EXCEPT !.task = "finished", !.exhausted = TRUE,
                     !.fut = UnitResult(th[t].unit, t)]

\* The worker thread of loop i is inside a callback that is executing a
\* run_async call of its own.
WorkerInNestedCall(i) ==
  \E t \in Threads : th[t].loop = i /\ th[t].npc \in {"n61", "n67", "n69"}

\* One callback of the running loop.  An iteration (_run_once) runs the
\* callbacks that were ready when it began (ntodo); loop.stop() makes
\* run_forever return at the end of the iteration in which it ran.
WorkerRun(i) ==
  /\ loops[i].thread = "running"
  /\ loops[i].ready # << >>
  /\ ~WorkerInNestedCall(i)
  /\ LET n == IF loops[i].ntodo = 0 THEN Len(loops[i].ready) ELSE loops[i].ntodo
         h == Head(loops[i].ready)
         stopping == loops[i].stopping \/ h.h = "stop"
         last == n = 1
     IN
     /\ loops' = [loops EXCEPT ![i] =
           [@ EXCEPT !.ready = Tail(@), !.ntodo = n - 1,
                     !.stopping = stopping /\ ~last,
                     !.thread = IF stopping /\ last THEN "finished" ELSE "running"]]
     /\ th' = IF h.h = "task" THEN [th EXCEPT ![h.t] = TaskStep(h.t)] ELSE th
  /\ UNCHANGED <<_loop, _loop_thread, _lock, atexitRegs, nloops, opsLeft>>
  /\ UNCHANGED mvars

\* What a suspended unit waits for happens: the running loop makes its task
\* ready again.
UnitWake(t) ==
  /\ th[t].pc = "r69"
  /\ th[t].task = "suspended"
  /\ loops[th[t].loop].thread = "running"
  /\ loops' = [loops EXCEPT ![th[t].loop].ready = Append(@, TaskHandle(t))]
  /\ th' = [th EXCEPT ![t].task = "woken"]
  /\ UNCHANGED <<_loop, _loop_thread, _lock, atexitRegs, nloops, opsLeft>>
  /\ UNCHANGED mvars

\* ------------------------- run_async called by a unit on the worker thread
\* A caller thread calls run_async(unit) with a unit that itself calls
\* run_async(inner) when it runs.  (One such unit is in flight at a time.)
RunBeginNested(t, inner) ==
  /\ MayCall(t)
  /\ \A o \in Threads \ {t} : ~(Active(o) /\ th[o].unit.nested # "none")
  /\ opsLeft > 0
  /\ opsLeft' = opsLeft - 1
  /\ th' = Begun(t,
        [IdleThread EXCEPT !.op = "run", !.unit = NestingUnit(inner),
                           !.pc = RunPath(FALSE), !.gotLoop = TRUE])
  /\ UNCHANGED <<_loop, _loop_thread, _lock, atexitRegs, loops, nloops>>
  /\ UNCHANGED mvars

\* Lines 60-66 on the worker thread, inside the callback that runs the unit of
\* caller t: get_running_loop() finds the shared loop, nest_asyncio.apply()
\* patches it, and the re-entrant run_until_complete runs the loop's ready
\* callbacks, the inner coroutine among them, until the inner coroutine is
\* done.  A RuntimeError of the inner coroutine is caught at line 66.
\* Otherwise the nested call returns or raises, the unit ends with it, and
\* control is back in the iteration that ran the unit: begun before the
\* patch, it goes on to pop the callbacks it had counted, finds the queue
\* emptied by the nested run, and run_forever ends with IndexError.
NestedRunUntilComplete(t) ==
  /\ th[t].npc = "n61"
  /\ LET i == th[t].loop
         r == InnerResult(th[t].unit, t)
         caught == ExceptRuntimeError(r)
         queued == {o \in Threads :
                      \E k \in 1..Len(loops[i].ready) :
                         loops[i].ready[k] = TaskHandle(o)}
         stepped == [o \in Threads |-> IF o \in queued THEN TaskStep(o) ELSE th[o]]
         broken == ~loops[i].patched /\ loops[i].ntodo > 0
     IN
     /\ th' = [stepped EXCEPT ![t] =
           IF caught
             THEN [th[t] EXCEPT !.npc = "n67", !.exhausted = TRUE]
             ELSE [th[t] EXCEPT !.npc = "done", !.nresult = r, !.exhausted = TRUE,
                                !.task = "finished", !.fut = r]]
     /\ loops' = [loops EXCEPT ![i] =
           [@ EXCEPT !.patched = TRUE, !.ready = << >>,
                     !.ntodo = IF caught THEN @ ELSE 0,
                     !.thread = IF ~caught /\ broken THEN "finished" ELSE @]]
  /\ UNCHANGED <<_loop, _loop_thread, _lock, atexitRegs, nloops, opsLeft>>
  /\ UNCHANGED mvars

\* Lines 67-69 on the worker thread: _get_loop() returns the shared loop at
\* line 23 (the loop the worker is running is open), the finished inner
\* coroutine is scheduled on it, and future.result() blocks the worker thread.
NestedFallback(t) ==
  /\ th[t].npc = "n67"
  /\ ~ContextAbsent
  /\ loops' = [loops EXCEPT ![_loop].ready = Append(@, [h |-> "inner", t |-> t])]
  /\ th' = [th EXCEPT ![t].npc = "n69"]
  /\ UNCHANGED <<_loop, _loop_thread, _lock, atexitRegs, nloops, opsLeft>>
  /\ UNCHANGED mvars

\* ------------------------------------------------ async_utils._shutdown_loop
NotStartedError == Raised("RuntimeError: cannot join thread before it is started", 0)
RunningLoopError == Raised("RuntimeError: Cannot close a running event loop", 0)

\* A caller thread (or the interpreter at exit) calls _shutdown_loop().
ShutdownBegin(t) ==
  /\ MayCall(t)
  /\ opsLeft > 0
  /\ opsLeft' = opsLeft - 1
  /\ th' = Begun(t, [IdleThread EXCEPT !.op = "shutdown", !.pc = "s37a"])
  /\ UNCHANGED <<_loop, _loop_thread, _lock, atexitRegs, loops, nloops>>
  /\ UNCHANGED mvars

ShutdownUnguarded(loopIsNone) == "s37b"

\* Where line 37 leads from its first operand: without a loop the body of the
\* if statement is skipped.
ShutdownGuard(loopIsNone) == IF loopIsNone THEN "s41" ELSE "s37b"

\* Line 37, first operand: "_loop is not None".
ShutdownCheck1(t) ==
  /\ th[t].pc = "s37a"
  /\ th' = [th EXCEPT ![t] = Goto(t, ShutdownGuard(_loop = NoLoop))]
  /\ UNCHANGED <<_loop, _loop_thread, _lock, atexitRegs, loops, nloops, opsLeft>>
  /\ UNCHANGED mvars

\* Line 37, second operand: "not _loop.is_closed()".
ShutdownCheck2(t) ==
  /\ th[t].pc = "s37b"
  /\ th' = [th EXCEPT ![t] =
        IF _loop = NoLoop THEN Finish(t, AttributeError)
        ELSE IF loops[_loop].closed THEN Goto(t, "s41")
        ELSE Goto(t, "s38")]
  /\ UNCHANGED <<_loop, _loop_thread, _lock, atexitRegs, loops, nloops, opsLeft>>
  /\ UNCHANGED mvars

\* Line 38: "_loop.call_soon_threadsafe(_loop.stop)".
ShutdownStop(t) ==
  /\ th[t].pc = "s38"
  /\ IF _loop = NoLoop
       THEN /\ th' = [th EXCEPT ![t] = Finish(t, AttributeError)]
            /\ loops' = loops
       ELSE IF loops[_loop].closed
       THEN /\ th' = [th EXCEPT ![t] = Finish(t, LoopClosedError)]
            /\ loops' = loops
       ELSE /\ loops' = [loops EXCEPT ![_loop].ready = Append(@, StopHandle)]
            /\ th' = [th EXCEPT ![t] =
                  [th[t] EXCEPT !.pc = "s39", !.effects = @ \cup {"stop"}]]
  /\ UNCHANGED <<_loop, _loop_thread, _lock, atexitRegs, nloops, opsLeft>>
  /\ UNCHANGED mvars

\* Line 39: "_loop_thread.join(timeout=5)" is called.
ShutdownJoin(t) ==
  /\ th[t].pc = "s39"
  /\ th' = [th EXCEPT ![t] =
        IF _loop_thread = NoLoop THEN Finish(t, AttributeError)
        ELSE IF loops[_loop_thread].thread = "created" THEN Finish(t, NotStartedError)
        ELSE [th[t] EXCEPT !.pc = "s39j", !.loop = _loop_thread,
                           !.effects = @ \cup {"join"}]]
  /\ UNCHANGED <<_loop, _loop_thread, _lock, atexitRegs, loops, nloops, opsLeft>>
  /\ UNCHANGED mvars

\* join returns: the thread has ended, or the timeout has passed while it is
\* still alive.
ShutdownJoined(t) ==
  /\ th[t].pc = "s39j"
  /\ th' = [th EXCEPT ![t] =
        [th[t] EXCEPT !.pc = "s40",
                      !.timedOut = (loops[th[t].loop].thread = "running")]]
  /\ UNCHANGED <<_loop, _loop_thread, _lock, atexitRegs, loops, nloops, opsLeft>>
  /\ UNCHANGED mvars

\* Line 40: "_loop.close()" refuses a running loop; otherwise the loop is
\* closed and its ready callbacks are dropped.
ShutdownClose(t) ==
  /\ th[t].pc = "s40"
  /\ IF _loop = NoLoop
       THEN /\ th' = [th EXCEPT ![t] = Finish(t, AttributeError)]
            /\ loops' = loops
       ELSE IF loops[_loop].thread = "running"
       THEN /\ th' = [th EXCEPT ![t] = Finish(t, RunningLoopError)]
            /\ loops' = loops
       ELSE /\ loops' = [loops EXCEPT ![_loop] =
                  [@ EXCEPT !.closed = TRUE, !.ready = << >>, !.ntodo = 0]]
            /\ th' = [th EXCEPT ![t] =
                  [th[t] EXCEPT !.pc = "s41", !.effects = @ \cup {"close"}]]
  /\ UNCHANGED <<_loop, _loop_thread, _lock, atexitRegs, nloops, opsLeft>>
  /\ UNCHANGED mvars

\* Line 41: "_loop = None".
ShutdownClearLoop(t) ==
  /\ th[t].pc = "s41"
  /\ _loop' = NoLoop
  /\ th' = [th EXCEPT ![t] = Goto(t, "s42")]
  /\ UNCHANGED <<_loop_thread, _lock, atexitRegs, loops, nloops, opsLeft>>
  /\ UNCHANGED mvars

\* Line 42: "_loop_thread = None", and the function returns.
ShutdownClearThread(t) ==
  /\ th[t].pc = "s42"
  /\ _loop_thread' = NoLoop
  /\ th' = [th EXCEPT ![t] = Finish(t, Returned("None", 0))]
  /\ UNCHANGED <<_loop, _lock, atexitRegs, loops, nloops, opsLeft>>
  /\ UNCHANGED mvars

\* -------------------------------------------------------------- specification
NextB ==
  \/ \E t \in Threads, inside \in BOOLEAN, u \in Units : RunBegin(t, inside, u)
  \/ \E t \in Threads : RunUntilComplete(t)
  \/ \E t \in Threads : GetLoopCheck1(t)
  \/ \E t \in Threads : GetLoopCheck2(t)
  \/ \E t \in Threads : GetLoopReturnFast(t)
  \/ \E t \in Threads : GetLoopLock(t)
  \/ \E t \in Threads : GetLoopLockedCheck1(t)
  \/ \E t \in Threads : GetLoopLockedCheck2(t)
  \/ \E t \in Threads : GetLoopLockedReturn(t)
  \/ \E t \in Threads : GetLoopCreate(t)
  \/ \E t \in Threads : GetLoopMakeThread(t)
  \/ \E t \in Threads : GetLoopStartThread(t)
  \/ \E t \in Threads : GetLoopRegister(t)
  \/ \E t \in Threads : GetLoopReturn(t)
  \/ \E t \in Threads : Submit(t)
  \/ \E t \in Threads : AwaitResult(t)
  \/ \E i \in LoopIds : WorkerEnter(i)
  \/ \E i \in LoopIds : WorkerRun(i)
  \/ \E t \in Threads : UnitWake(t)
  \/ \E t \in Threads : ShutdownBegin(t)
  \/ \E t \in Threads : ShutdownCheck1(t)
  \/ \E t \in Threads : ShutdownCheck2(t)
  \/ \E t \in Threads : ShutdownStop(t)
  \/ \E t \in Threads : ShutdownJoin(t)
  \/ \E t \in Threads : ShutdownJoined(t)
  \/ \E t \in Threads : ShutdownClose(t)
  \/ \E t \in Threads : ShutdownClearLoop(t)
  \/ \E t \in Threads : ShutdownClearThread(t)

\* The bridge alone, beside a Manager that is left as constructed.
InitBridge == InitM /\ agfs_url = TRUE /\ InitB

SpecB == InitBridge /\ [][NextB]_vars

\* The bridge with no shutdown taking place: callers only.
NextRun ==
  \/ \E t \in Threads, inside \in BOOLEAN, u \in Units : RunBegin(t, inside, u)
  \/ \E t \in Threads : RunUntilComplete(t)
  \/ \E t \in Threads : GetLoopCheck1(t)
  \/ \E t \in Threads : GetLoopCheck2(t)
  \/ \E t \in Threads : GetLoopReturnFast(t)
  \/ \E t \in Threads : GetLoopLock(t)
  \/ \E t \in Threads : GetLoopLockedCheck1(t)
  \/ \E t \in Threads : GetLoopLockedCheck2(t)
  \/ \E t \in Threads : GetLoopLockedReturn(t)
  \/ \E t \in Threads : GetLoopCreate(t)
  \/ \E t \in Threads : GetLoopMakeThread(t)
  \/ \E t \in Threads : GetLoopStartThread(t)
  \/ \E t \in Threads : GetLoopRegister(t)
  \/ \E t \in Threads : GetLoopReturn(t)
  \/ \E t \in Threads : Submit(t)
  \/ \E t \in Threads : AwaitResult(t)
  \/ \E i \in LoopIds : WorkerEnter(i)
  \/ \E i \in LoopIds : WorkerRun(i)
  \/ \E t \in Threads : UnitWake(t)

SpecRun == InitBridge /\ [][NextRun]_vars

\* Callers only, some of whose units call run_async themselves.
NextNest ==
  \/ \E t \in Threads, inside \in BOOLEAN, u \in Units : RunBegin(t, inside, u)
  \/ \E t \in Threads, inner \in Outcomes : RunBeginNested(t, inner)
  \/ \E t \in Threads : RunUntilComplete(t)
  \/ \E t \in Threads : GetLoopCheck1(t)
  \/ \E t \in Threads : GetLoopCheck2(t)
  \/ \E t \in Threads : GetLoopReturnFast(t)
  \/ \E t \in Threads : GetLoopLock(t)
  \/ \E t \in Threads : GetLoopLockedCheck1(t)
  \/ \E t \in Threads : GetLoopLockedCheck2(t)
  \/ \E t \in Threads : GetLoopLockedReturn(t)
  \/ \E t \in Threads : GetLoopCreate(t)
  \/ \E t \in Threads : GetLoopMakeThread(t)
  \/ \E t \in Threads : GetLoopStartThread(t)
  \/ \E t \in Threads : GetLoopRegister(t)
  \/ \E t \in Threads : GetLoopReturn(t)
  \/ \E t \in Threads : Submit(t)
  \/ \E t \in Threads : AwaitResult(t)
  \/ \E i \in LoopIds : WorkerEnter(i)
  \/ \E i \in LoopIds : WorkerRun(i)
  \/ \E t \in Threads : UnitWake(t)
  \/ \E t \in Threads : NestedRunUntilComplete(t)
  \/ \E t \in Threads : NestedFallback(t)

SpecNest == InitBridge /\ [][NextNest]_vars

\* ------------------------------------------------- properties of the bridge
RunCalls == {t \in Threads : th[t].op = "run"}
Finished(t) == th[t].pc = "done"

\* C9: a finished run(unit) has returned the unit's result when the unit
\* succeeds and has raised the unit's own error when the unit fails, for every
\* kind of error and on both execution paths.
C9_RunReturnsOrReraises ==
  \A t \in RunCalls :
    Finished(t) => th[t].result = UnitResult(th[t].unit, t)

\* C10: a run call executes its unit on exactly one of the two paths and starts
\* it exactly once; a call made inside an active asynchronous context drives
\* the unit there and never obtains, creates or submits to the shared context.
C10_ExactlyOnePath ==
  \A t \in RunCalls :
    /\ th[t].inside => (~th[t].gotLoop /\ ~th[t].submitted)
    /\ ~(th[t].drove /\ th[t].submitted)
    /\ Finished(t) => (th[t].starts = 1 /\ (th[t].drove \/ th[t].submitted))

\* C11: when the caller threads call run while no shared loop exists and no
\* shutdown runs, one loop and one worker thread are created, every caller
\* submits its unit to that loop, and that thread has run the unit of every
\* caller that has returned.
C11_OneContextForAll ==
  /\ nloops <= 1
  /\ Cardinality({i \in LoopIds : loops[i].thread # "none"}) <= 1
  /\ \A t \in RunCalls :
       /\ th[t].submitted => (nloops = 1 /\ th[t].loop = 1 /\ _loop = 1)
       /\ (th[t].submitted /\ Finished(t)) => loops[1].thread = "running"

\* C11 witness: both threads called while there was no loop, both went for the
\* lock, and both have submitted to the one loop.
C11_Witness ==
  \A t \in Threads :
    /\ th[t].op = "run" /\ ~th[t].inside
    /\ th[t].absentAtStart /\ th[t].viaLock
    /\ th[t].submitted /\ th[t].loop = 1

\* C12: whatever creations, shutdowns and recreations of the shared loop take
\* place one after the other in the process, _shutdown_loop is registered with
\* atexit at most once.
C12_HookRegisteredOnce ==
  (\A t \in Threads : ~th[t].overlapped) => atexitRegs <= 1

\* C13: a _shutdown_loop() that begins with no usable loop (never created, or
\* torn down), and that no other caller's call overlaps, sends no stop, joins
\* no thread, closes nothing, raises nothing, and returns with _loop and
\* _loop_thread both None.
C13_ShutdownOfAbsentContextIsNoOp ==
  [][\A t \in Threads :
       (th'[t].op = "shutdown" /\ th'[t].absentAtStart /\ ~th'[t].overlapped)
         => /\ th'[t].effects = {}
            /\ th'[t].result.kind # "raised"
            /\ (th[t].pc = "s42" /\ th'[t].pc = "done")
                 => (_loop' = NoLoop /\ _loop_thread' = NoLoop)]_vars

\* C13 witness: a loop was created and closed, and a later _shutdown_loop()
\* that began without a usable loop has returned.
C13_Witness ==
  \E t \in Threads :
    /\ th[t].op = "shutdown" /\ Finished(t)
    /\ th[t].absentAtStart /\ ~th[t].overlapped
    /\ nloops >= 1 /\ loops[1].closed

\* C14: a run call from outside any running loop that begins after a
\* _shutdown_loop() has returned and left no usable loop, and that no other
\* caller's call overlaps, creates a new loop with its own worker thread,
\* submits its unit to it and returns the unit's result.
C14_RunAfterShutdownRecreates ==
  \A t \in RunCalls :
    (Finished(t) /\ ~th[t].inside /\ th[t].afterShutdown /\ ~th[t].overlapped)
      => /\ th[t].result = UnitResult(th[t].unit, t)
         /\ th[t].created # NoLoop
         /\ th[t].loop = th[t].created
         /\ th[t].submitted
         /\ loops[th[t].created].thread \notin {"none", "created"}

\* C14 witness: the first loop was shut down and closed, and a later run call
\* has finished on a second loop.
C14_Witness ==
  \E t \in RunCalls :
    /\ Finished(t) /\ ~th[t].inside /\ th[t].afterShutdown /\ ~th[t].overlapped
    /\ loops[1].closed
    /\ th[t].created = 2

\* C16: a caller whose own unit has completed on the shared loop can return at
\* once, whether or not the unit of the other caller has completed.
C16_ReleasedOnOwnCompletion ==
  \A t \in RunCalls :
    (th[t].pc = "r69" /\ th[t].task = "finished") => ENABLED AwaitResult(t)

\* C16 witness: one caller has returned its unit's result while the other
\* caller still waits on its suspended unit on the same loop.
C16_Witness ==
  \E t, o \in RunCalls :
    /\ t # o
    /\ Finished(t) /\ th[t].submitted /\ th[t].result = UnitResult(th[t].unit, t)
    /\ th[o].pc = "r69" /\ th[o].task = "suspended"
    /\ th[o].loop = th[t].loop

\* C18: a _shutdown_loop() that begins with a live loop, where no two calls
\* have overlapped, ends with _loop and _loop_thread both None, also when the
\* join timed out with the worker thread still running the loop.
C18_ShutdownAlwaysClears ==
  [][\A t \in Threads :
       (/\ th[t].op = "shutdown" /\ th[t].pc # "done" /\ th'[t].pc = "done"
        /\ ~th[t].absentAtStart
        /\ \A o \in Threads : ~th'[o].overlapped)
         => (_loop' = NoLoop /\ _loop_thread' = NoLoop)]_vars

\* C19: what _get_loop() returns is never None, whatever a concurrent
\* _shutdown_loop() does.
C19_GetLoopNeverReturnsNone ==
  \A t \in RunCalls : th[t].returnedLoop => th[t].loop # NoLoop

\* C20: no caller is left waiting in future.result() on a unit that can no
\* longer run: the unit started and suspended, its future unset, and the loop
\* it was submitted to closed.
C20_NoWaiterOnClosedLoop ==
  \A t \in RunCalls :
    ~(/\ th[t].pc = "r69" /\ th[t].fut = NoResult
      /\ th[t].task = "suspended"
      /\ loops[th[t].loop].closed)

\* C15: a run_async call made by a unit running on the shared loop, on the
\* worker thread, is never left waiting, in future.result(), for a future that
\* only the waiting worker thread could complete, and when it has finished it
\* has returned the inner coroutine's result or raised its error.
C15_NestedCallCompletes ==
  \A t \in RunCalls :
    th[t].unit.nested # "none" =>
      /\ th[t].npc # "n69"
      /\ th[t].npc = "done" => th[t].nresult = InnerResult(th[t].unit, t)

====
